---- MODULE Spec2Model ----
(***************************************************************************)
(* Model of Translate.py: the management pipeline of the entry block       *)
(* (criar_projeto, carregar_arquivos, treinar_modelo), the translator      *)
(* invoker traduzir_com_modelo_personalizado, and the remote services they *)
(* talk to.  Text is a sequence of tokens; a Python value is a record      *)
(* [t, s, n] (a str, an int or None).                                      *)
(* Printed and written text is spelled without its accents.                *)
(***************************************************************************)
EXTENDS Integers, Sequences, FiniteSets, TLC

\* ------------------------------------------------------------------ bounds
\* How many numeric identifiers (7, 14, ...) the remote service may assign.
MaxIntIds == 1
\* Translation variants the translation service may return per input text.
MaxVariants == 2

\* ------------------------------------------------------- Python values, text
PStr(s) == [t |-> "str", s |-> s, n |-> 0]
PInt(n) == [t |-> "int", s |-> <<>>, n |-> n]
PNone == [t |-> "none", s |-> <<>>, n |-> 0]

DigitTok == <<"0", "1", "2", "3", "4", "5", "6", "7", "8", "9">>

RECURSIVE Digits(_)
\* str(n) of a non-negative int: its decimal digits.
Digits(n) ==
    IF n < 10 THEN <<DigitTok[n + 1]>>
    ELSE Digits(n \div 10) \o <<DigitTok[(n % 10) + 1]>>

\* What an f-string interpolation {v} produces: format(v, "").
Fmt(v) ==
    CASE v.t = "str" -> v.s
      [] v.t = "int" -> Digits(v.n)
      [] OTHER -> <<"None">>

\* os.path.basename of a path given as its components.
Basename(path) == IF Len(path) = 0 THEN <<>> ELSE <<path[Len(path)]>>

\* ------------------------------------------------------------------- JSON
\* A parsed JSON document, as far as the program looks at it.
JDecodeError == [kind |-> "invalid", hasId |-> FALSE, id |-> PNone]
JList == [kind |-> "list", hasId |-> FALSE, id |-> PNone]
JDict == [kind |-> "dict", hasId |-> FALSE, id |-> PNone]
JDictId(v) == [kind |-> "dict", hasId |-> TRUE, id |-> v]

IsDigit(tok) == \E d \in 1..10 : DigitTok[d] = tok
DigitVal(tok) == (CHOOSE d \in 1..10 : DigitTok[d] = tok) - 1

RECURSIVE ParseInt(_)
ParseInt(toks) ==
    IF Len(toks) = 1 THEN DigitVal(toks[1])
    ELSE 10 * ParseInt(SubSeq(toks, 1, Len(toks) - 1)) + DigitVal(toks[Len(toks)])

\* A JSON scalar: "..." is a string, digits are a number, null is None.
ParseValue(toks) ==
    IF Len(toks) >= 2 /\ toks[1] = "\"" /\ toks[Len(toks)] = "\""
    THEN [ok |-> TRUE, v |-> PStr(SubSeq(toks, 2, Len(toks) - 1))]
    ELSE IF Len(toks) >= 1 /\ \A i \in 1..Len(toks) : IsDigit(toks[i])
    THEN [ok |-> TRUE, v |-> PInt(ParseInt(toks))]
    ELSE IF toks = <<"null">>
    THEN [ok |-> TRUE, v |-> PNone]
    ELSE [ok |-> FALSE, v |-> PNone]

\* response.json(): the body text parsed; JDecodeError when it is not JSON.
ParseJson(text) ==
    IF text = <<"[", "]">> THEN JList
    ELSE IF text = <<"{", "}">> THEN JDict
    ELSE IF Len(text) >= 7 /\ text[1] = "{" /\ text[Len(text)] = "}"
            /\ text[2] = "\"" /\ text[4] = "\"" /\ text[5] = ":"
    THEN LET val == ParseValue(SubSeq(text, 6, Len(text) - 1))
         IN  IF ~val.ok THEN JDecodeError
             ELSE IF text[3] = "id" THEN JDictId(val.v)
             ELSE JDict
    ELSE JDecodeError

\* ------------------------------------------------------------- exceptions
NoResp == [status |-> 0, reason |-> <<>>, text |-> <<>>]
NoExc == [cls |-> "", msg |-> <<>>, resp |-> NoResp]
Exc(cls, msg) == [cls |-> cls, msg |-> msg, resp |-> NoResp]

\* The direct base class of each exception class that can arise.
BaseOf(cls) ==
    CASE cls = "HTTPError" -> "RequestException"
      [] cls = "ConnectionError" -> "RequestException"
      [] cls = "JSONDecodeError" -> "RequestException"
      [] cls = "RequestException" -> "OSError"
      [] cls = "FileNotFoundError" -> "OSError"
      [] cls = "PermissionError" -> "OSError"
      [] cls = "OSError" -> "Exception"
      [] cls = "KeyError" -> "Exception"
      [] cls = "TypeError" -> "Exception"
      [] cls = "HttpResponseError" -> "Exception"
      [] cls = "Exception" -> "BaseException"
      [] OTHER -> ""

RECURSIVE IsInstance(_, _)
IsInstance(cls, target) ==
    IF cls = "" THEN FALSE
    ELSE IF cls = target THEN TRUE
    ELSE IsInstance(BaseOf(cls), target)

\* Mutant: the raise_for_status call left out.
RaiseForStatusOmitted(resp, url) == NoExc

\* Mutant: only the client errors (4xx) raise.
RaiseForStatusClientOnly(resp, url) ==
    IF 400 <= resp.status /\ resp.status < 500
    THEN [cls |-> "HTTPError",
          msg |-> Digits(resp.status) \o <<" Client Error: ">> \o resp.reason
                  \o <<" for url: ">> \o url,
          resp |-> resp]
    ELSE NoExc

\* response.raise_for_status(): the HTTPError it raises, or NoExc.  The message
\* is built from the status code, the reason phrase and the url; the response
\* itself rides on the exception.
RaiseForStatus(resp, url) ==
    IF 400 <= resp.status /\ resp.status < 500
    THEN [cls |-> "HTTPError",
          msg |-> Digits(resp.status) \o <<" Client Error: ">> \o resp.reason
                  \o <<" for url: ">> \o url,
          resp |-> resp]
    ELSE IF 500 <= resp.status /\ resp.status < 600
    THEN [cls |-> "HTTPError",
          msg |-> Digits(resp.status) \o <<" Server Error: ">> \o resp.reason
                  \o <<" for url: ">> \o url,
          resp |-> resp]
    ELSE NoExc

\* ------------------------------------------------- constants of the script
CUSTOM_TRANSLATOR_API_ENDPOINT == <<"https://portal.customtranslator.azure.ai">>
NOME_DO_PROJETO == <<"MeuProjetoTraducaoAgil">>
CATEGORIA_DO_PROJETO == <<"Agilidade">>
IDIOMA_ORIGEM == <<"en">>
IDIOMA_DESTINO == <<"pt">>
EnTrainingTxt == <<"en-training.txt">>
PtBrTrainingTxt == <<"pt-br-training.txt">>
EnTrainingData == <<"Product Backlog\n", "Sprint Planning\n", "Daily Scrum\n">>
PtBrTrainingData ==
    <<"Backlog do Produto\n", "Planejamento da Sprint\n", "Reuniao Diaria\n">>
textos_para_traduzir ==
    << <<"The team will discuss the Product Backlog during Sprint Planning.">>,
       <<"We need to refine the user stories and fix the bugs.">> >>

\* ------------------------------------------------ inputs and the environment
\* os.getenv("WORKSPACE_ID"): a string, or None when the variable is unset.
WorkspaceIds == {PStr(<<"ws1">>), PStr(<<"ws", "2">>), PNone}
TranslatorKeys == {PStr(<<"key">>)}
TranslatorEndpoints == {PStr(<<"https://api.cognitive.microsofttranslator.com">>)}

\* Arguments a caller other than the entry block may pass.
Names == {NOME_DO_PROJETO, <<"P">>}
Categories == {CATEGORIA_DO_PROJETO, <<"Agil", "idade">>, <<>>}
Langs == {IDIOMA_ORIGEM, IDIOMA_DESTINO}
Paths == {EnTrainingTxt, PtBrTrainingTxt, <<"data", "en-training.txt">>}
ModelNames == {<<"Modelo">> \o CATEGORIA_DO_PROJETO \o <<"_v1">>, <<"m">>}

\* Identifiers the remote service may put in the `id` field.
IdValues ==
    {PStr(<<"proj-1">>), PStr(<<"model-1">>), PNone}
        \cup {PInt(7 * i) : i \in 1..MaxIntIds}

\* Project identifiers a caller other than the entry block may pass.
ProjectIds == {PStr(<<"proj-1">>), PInt(7)}

\* The local filesystem: the content of each path, or NoFile.
NoFile == <<"<no file>">>
FileData(p) == <<"data of ">> \o p
\* The filesystem in which exactly the paths of E exist.
FsWith(E) == [p \in Paths |-> IF p \in E THEN FileData(p) ELSE NoFile]

\* json.dumps of a scalar and of {"id": v}, as the remote service writes them.
DumpsValue(v) ==
    CASE v.t = "str" -> <<"\"">> \o v.s \o <<"\"">>
      [] v.t = "int" -> Digits(v.n)
      [] OTHER -> <<"null">>
DumpsId(v) == <<"{", "\"", "id", "\"", ":">> \o DumpsValue(v) \o <<"}">>
ErrorBody ==
    <<"{", "\"", "error", "\"", ":", "\"", "bad language code", "\"", "}">>

\* Response bodies: {"id": v}, {}, [], an error document, an empty body.
BodyTexts ==
    {DumpsId(v) : v \in IdValues} \cup {<<"{", "}">>, <<"[", "]">>, ErrorBody, <<>>}

\* The bodies the remote service sends with a status: any document with a
\* success status, nothing with 304, an error document or nothing with an
\* error status.
BodiesOf(status) ==
    IF status < 300 THEN BodyTexts \ {ErrorBody}
    ELSE IF status < 400 THEN {<<>>}
    ELSE {ErrorBody, <<>>}

\* Final status codes requests.post can hand back (redirects it could follow
\* are followed; 304 stands for a 3xx it returns as it is).
Statuses == {200, 304, 400, 500}
Reason(status) ==
    CASE status = 200 -> <<"OK">>
      [] status = 304 -> <<"Not Modified">>
      [] status = 400 -> <<"Bad Request">>
      [] OTHER -> <<"Internal Server Error">>

NoAnswer == [kind |-> "none", resp |-> NoResp, cls |-> "", nvar |-> 0]
\* What the management API can answer a POST with: a response, or a transport
\* error raised by requests.post.
HttpAnswers ==
    UNION {{[kind |-> "response",
             resp |-> [status |-> st, reason |-> Reason(st), text |-> tx],
             cls |-> "", nvar |-> 0] : tx \in BodiesOf(st)} : st \in Statuses}
        \cup {[kind |-> "error", resp |-> NoResp, cls |-> "ConnectionError", nvar |-> 0]}
\* What client.translate can answer with: nvar translations per input text, or
\* an error.
TranslateAnswers ==
    {[kind |-> "translated", resp |-> NoResp, cls |-> "", nvar |-> k] : k \in 1..MaxVariants}
        \cup {[kind |-> "error", resp |-> NoResp, cls |-> "HttpResponseError", nvar |-> 0]}

\* ------------------------------------------------------------------ state
VARIABLES
    entry,              \* what is run: the entry block ("main") or one function
    WORKSPACE_ID, TRANSLATOR_KEY, TRANSLATOR_ENDPOINT,   \* module globals (lines 15-17)
    fs,                 \* the filesystem: path -> content
    pc,                 \* where the program is
    args,               \* the arguments of the function being run
    id_projeto,         \* the entry block's local (line 140)
    sent,               \* the management requests sent so far, in order
    translateCalls,     \* the client.translate requests sent so far
    answer,             \* the remote side's answer to the request in flight
    recv,               \* the answers the program has received, in order
    handles,            \* the file handles opened so far
    returned,           \* the values the functions returned, in order
    exc,                \* the exception being propagated or handled
    escaped,            \* whether an exception left the code that was run
    out                 \* the lines printed

vars == <<entry, WORKSPACE_ID, TRANSLATOR_KEY, TRANSLATOR_ENDPOINT, fs, pc, args,
          id_projeto, sent, translateCalls, answer, recv, handles, returned, exc,
          escaped, out>>

NoArgs ==
    [nome_projeto |-> <<>>, categoria_projeto |-> <<>>, lang_origem |-> <<>>,
     lang_destino |-> <<>>, project_id |-> PNone, arquivo_origem |-> <<>>,
     arquivo_destino |-> <<>>, lang_origem_code |-> <<>>, nome_modelo |-> <<>>]

WaitLabels == {"criar_wait", "carregar_wait", "treinar_wait", "traduzir_wait"}
CarregarLabels == {"carregar_arquivos", "carregar_wait"}

\* The state every run starts from, whatever is run.
InitCommon ==
    /\ TRANSLATOR_KEY \in TranslatorKeys
    /\ TRANSLATOR_ENDPOINT \in TranslatorEndpoints
    /\ id_projeto = PNone
    /\ sent = <<>>
    /\ translateCalls = <<>>
    /\ answer = NoAnswer
    /\ recv = <<>>
    /\ handles = <<>>
    /\ returned = <<>>
    /\ exc = NoExc
    /\ escaped = FALSE
    /\ out = <<>>

\* The script run as it is: the entry block, lines 120-155.
InitMain ==
    /\ entry = "main"
    /\ pc = "main"
    /\ WORKSPACE_ID \in WorkspaceIds
    /\ fs \in {FsWith({}), FsWith(Paths)}
    /\ args = NoArgs

\* criar_projeto called on its own with any arguments.
InitCriarProjeto ==
    /\ entry = "criar_projeto"
    /\ pc = "criar_projeto"
    /\ WORKSPACE_ID \in WorkspaceIds
    /\ fs = FsWith({})
    /\ \E n \in Names, c \in Categories, lo \in Langs, ld \in Langs :
          args = [NoArgs EXCEPT !.nome_projeto = n, !.categoria_projeto = c,
                                 !.lang_origem = lo, !.lang_destino = ld]

\* carregar_arquivos called on its own with any arguments.
InitCarregarArquivos ==
    /\ entry = "carregar_arquivos"
    /\ pc = "carregar_arquivos"
    /\ WORKSPACE_ID = PStr(<<"ws1">>)
    /\ fs \in {FsWith(E) : E \in SUBSET Paths}
    /\ \E p \in ProjectIds, ao \in Paths, ad \in Paths, lc \in Langs :
          args = [NoArgs EXCEPT !.project_id = p, !.arquivo_origem = ao,
                                 !.arquivo_destino = ad, !.lang_origem_code = lc]

\* treinar_modelo called on its own with any arguments.
InitTreinarModelo ==
    /\ entry = "treinar_modelo"
    /\ pc = "treinar_modelo"
    /\ WORKSPACE_ID = PStr(<<"ws1">>)
    /\ fs = FsWith({})
    /\ \E p \in ProjectIds, nm \in ModelNames :
          args = [NoArgs EXCEPT !.project_id = p, !.nome_modelo = nm]

\* traduzir_com_modelo_personalizado called with any arguments (line 155, once
\* the operator enables it).
InitTraduzir ==
    /\ entry = "traduzir_com_modelo_personalizado"
    /\ pc = "traduzir"
    /\ WORKSPACE_ID \in WorkspaceIds
    /\ fs = FsWith({})
    /\ \E c \in Categories, ld \in Langs :
          args = [NoArgs EXCEPT !.categoria_projeto = c, !.lang_destino = ld]

Init ==
    /\ InitCommon
    /\ \/ InitMain
       \/ InitCriarProjeto
       \/ InitCarregarArquivos
       \/ InitTreinarModelo
       \/ InitTraduzir

\* --------------------------------------------------- calls and returns
\* Binding the parameters of each function at a call.
CallCriarProjeto(n, c, lo, ld) ==
    /\ args' = [NoArgs EXCEPT !.nome_projeto = n, !.categoria_projeto = c,
                               !.lang_origem = lo, !.lang_destino = ld]
    /\ pc' = "criar_projeto"

CallCarregarArquivos(p, ao, ad, lc) ==
    /\ args' = [NoArgs EXCEPT !.project_id = p, !.arquivo_origem = ao,
                               !.arquivo_destino = ad, !.lang_origem_code = lc]
    /\ pc' = "carregar_arquivos"

CallTreinarModelo(p, nm) ==
    /\ args' = [NoArgs EXCEPT !.project_id = p, !.nome_modelo = nm]
    /\ pc' = "treinar_modelo"

\* Mutant: the project's name is passed on instead of the identifier returned.
MainAfterCriarProjetoByName(val) ==
    /\ id_projeto' = val
    /\ CallCarregarArquivos(PStr(NOME_DO_PROJETO), EnTrainingTxt, PtBrTrainingTxt,
                            IDIOMA_ORIGEM)

\* Line 140's assignment and line 141: what the entry block does with the value
\* criar_projeto returned.
MainAfterCriarProjeto(val) ==
    /\ id_projeto' = val
    /\ CallCarregarArquivos(val, EnTrainingTxt, PtBrTrainingTxt, IDIOMA_ORIGEM)

\* Mutant: the entry block ends after the upload, training is never started.
MainAfterCarregarArquivosSkip ==
    /\ pc' = "done"
    /\ UNCHANGED <<args, id_projeto>>

\* Line 142, reached when carregar_arquivos returned.
MainAfterCarregarArquivos ==
    /\ CallTreinarModelo(id_projeto, <<"Modelo">> \o CATEGORIA_DO_PROJETO \o <<"_v1">>)
    /\ UNCHANGED id_projeto

\* The end of the try block, reached when treinar_modelo returned; line 155 is
\* commented out, so the entry block ends here.
MainAfterTreinarModelo ==
    /\ pc' = "done"
    /\ UNCHANGED <<args, id_projeto>>

\* Function fn returns val to whoever called it.
Return(fn, val) ==
    /\ returned' = Append(returned, [fn |-> fn, val |-> val])
    /\ UNCHANGED <<exc, escaped>>
    /\ IF entry # "main"
       THEN pc' = "done" /\ UNCHANGED <<args, id_projeto>>
       ELSE IF fn = "criar_projeto" THEN MainAfterCriarProjeto(val)
       ELSE IF fn = "carregar_arquivos" THEN MainAfterCarregarArquivos
       ELSE MainAfterTreinarModelo

\* An exception leaves the function being run: inside the entry block's try
\* (lines 132-142) it reaches the except clauses, otherwise it leaves the code.
Raise(e) ==
    /\ exc' = e
    /\ UNCHANGED <<args, id_projeto, returned>>
    /\ IF entry = "main"
       THEN pc' = "except" /\ UNCHANGED escaped
       ELSE pc' = "done" /\ escaped' = TRUE

\* ---------------------------------------------------------- the remote side
\* Mutant: the call gives up waiting (a timeout) instead of blocking.
PostReturnsWithTimeout == TRUE

\* requests.post and client.translate block until the remote side has answered:
\* the call returns (or raises) only then.  No timeout is passed.
PostReturns == answer.kind # "none"

\* The remote side answers the request in flight: a response or an error.
RemoteAnswers ==
    /\ pc \in WaitLabels
    /\ answer = NoAnswer
    /\ answer' \in (IF pc = "traduzir_wait" THEN TranslateAnswers ELSE HttpAnswers)
    /\ UNCHANGED <<entry, WORKSPACE_ID, TRANSLATOR_KEY, TRANSLATOR_ENDPOINT, fs, pc,
                   args, id_projeto, sent, translateCalls, recv, handles, returned,
                   exc, escaped, out>>

\* The exception requests.post raises for a transport error.
TransportError(url) ==
    Exc("ConnectionError", <<"Connection failed for url: ">> \o url)

\* -------------------------------------------------------- criar_projeto
\* Lines 27-37: the request criar_projeto builds.
CriarProjetoRequest(a) ==
    [method |-> "POST",
     url |-> CUSTOM_TRANSLATOR_API_ENDPOINT \o <<"/api/texttranslator/v1.0/workspaces/">>
             \o Fmt(WORKSPACE_ID) \o <<"/projects">>,
     headers |-> [key |-> TRANSLATOR_KEY, contentType |-> <<"application/json">>],
     json |-> [name |-> a.nome_projeto,
               languagePair |-> [sourceLanguage |-> [code |-> a.lang_origem],
                                 targetLanguage |-> [code |-> a.lang_destino]],
               category |-> a.categoria_projeto,
               description |-> <<"Modelo para traduzir termos de ">>
                               \o a.categoria_projeto \o <<".">>],
     files |-> <<>>,
     params |-> <<>>]

\* Lines 39-40, up to the point where requests.post blocks.
CriarProjetoSend ==
    /\ pc = "criar_projeto"
    /\ sent' = Append(sent, CriarProjetoRequest(args))
    /\ out' = Append(out, <<"1. Criando o projeto '">> \o args.nome_projeto \o <<"'...">>)
    /\ pc' = "criar_wait"
    /\ UNCHANGED <<entry, WORKSPACE_ID, TRANSLATOR_KEY, TRANSLATOR_ENDPOINT, fs, args,
                   id_projeto, translateCalls, answer, recv, handles, returned, exc,
                   escaped>>

\* Mutant: the identifier is returned as text, str(project_info['id']).
CriarProjetoOutcomeStr(ans, url) ==
    IF ans.kind = "error"
    THEN [exc |-> TransportError(url), val |-> PNone, lines |-> <<>>]
    ELSE IF RaiseForStatus(ans.resp, url) # NoExc
    THEN [exc |-> RaiseForStatus(ans.resp, url), val |-> PNone, lines |-> <<>>]
    ELSE LET project_info == ParseJson(ans.resp.text)
         IN  IF project_info.kind # "dict" \/ ~project_info.hasId
             THEN [exc |-> Exc("KeyError", <<"'id'">>), val |-> PNone, lines |-> <<>>]
             ELSE [exc |-> NoExc, val |-> PStr(Fmt(project_info.id)),
                   lines |-> << <<"   -> Projeto criado com sucesso. ID: ">>
                                \o Fmt(project_info.id) >>]

\* Lines 40-46 as a function of the answer: the exception raised (NoExc when
\* none), the value returned and the lines printed.
CriarProjetoOutcome(ans, url) ==
    IF ans.kind = "error"
    THEN [exc |-> TransportError(url), val |-> PNone, lines |-> <<>>]
    ELSE IF RaiseForStatus(ans.resp, url) # NoExc
    THEN [exc |-> RaiseForStatus(ans.resp, url), val |-> PNone, lines |-> <<>>]
    ELSE LET project_info == ParseJson(ans.resp.text)
         IN  IF project_info.kind = "invalid"
             THEN [exc |-> Exc("JSONDecodeError", <<"Expecting value">>),
                   val |-> PNone, lines |-> <<>>]
             ELSE IF project_info.kind = "list"
             THEN [exc |-> Exc("TypeError", <<"list indices must be integers">>),
                   val |-> PNone, lines |-> <<>>]
             ELSE IF ~project_info.hasId
             THEN [exc |-> Exc("KeyError", <<"'id'">>), val |-> PNone, lines |-> <<>>]
             ELSE [exc |-> NoExc, val |-> project_info.id,
                   lines |-> << <<"   -> Projeto criado com sucesso. ID: ">>
                                \o Fmt(project_info.id) >>]

\* Lines 40-46 once requests.post has returned or raised.
CriarProjetoRecv ==
    /\ pc = "criar_wait"
    /\ PostReturns
    /\ LET o == CriarProjetoOutcome(answer, sent[Len(sent)].url)
       IN  /\ out' = out \o o.lines
           /\ IF o.exc # NoExc THEN Raise(o.exc) ELSE Return("criar_projeto", o.val)
    /\ recv' = Append(recv, answer)
    /\ answer' = NoAnswer
    /\ UNCHANGED <<entry, WORKSPACE_ID, TRANSLATOR_KEY, TRANSLATOR_ENDPOINT, fs, sent,
                   translateCalls, handles>>

\* ----------------------------------------------------- carregar_arquivos
\* open(path, 'rb'): the handle it creates.
OpenHandle(path) == [path |-> path, state |-> "open", closedBy |-> ""]

\* One part of the multipart payload: the field name, then the tuple
\* (file name, file object, content type); fp is the handle's position in
\* `handles`, data what the handle reads.
FilePart(path, fp) ==
    [field |-> "files", filename |-> Basename(path), fp |-> fp, data |-> fs[path],
     ctype |-> <<"text/plain">>]

\* Mutant: the two parts in the other order, target file first.
CarregarArquivosRequestSwapped(a, h) ==
    [method |-> "POST",
     url |-> CUSTOM_TRANSLATOR_API_ENDPOINT \o <<"/api/texttranslator/v1.0/projects/">>
             \o Fmt(a.project_id) \o <<"/documents">>,
     headers |-> [key |-> TRANSLATOR_KEY, contentType |-> <<>>],
     json |-> <<>>,
     files |-> <<FilePart(a.arquivo_destino, h + 2), FilePart(a.arquivo_origem, h + 1)>>,
     params |-> [documentType |-> <<"training">>, languageCode |-> a.lang_origem_code]]

\* Lines 51-58: the request carregar_arquivos builds; h is the number of handles
\* opened before the call.
CarregarArquivosRequest(a, h) ==
    [method |-> "POST",
     url |-> CUSTOM_TRANSLATOR_API_ENDPOINT \o <<"/api/texttranslator/v1.0/projects/">>
             \o Fmt(a.project_id) \o <<"/documents">>,
     headers |-> [key |-> TRANSLATOR_KEY, contentType |-> <<>>],
     json |-> <<>>,
     files |-> <<FilePart(a.arquivo_origem, h + 1), FilePart(a.arquivo_destino, h + 2)>>,
     params |-> [documentType |-> <<"training">>, languageCode |-> a.lang_origem_code]]

\* Lines 51-62, up to the point where requests.post blocks: the two files are
\* opened in order, then the request is sent.
CarregarArquivosSend ==
    /\ pc = "carregar_arquivos"
    /\ IF fs[args.arquivo_origem] = NoFile
       THEN /\ Raise(Exc("FileNotFoundError", <<"No such file or directory: ">>
                                              \o args.arquivo_origem))
            /\ UNCHANGED <<handles, sent, out>>
       ELSE IF fs[args.arquivo_destino] = NoFile
       THEN /\ handles' = Append(handles, OpenHandle(args.arquivo_origem))
            /\ Raise(Exc("FileNotFoundError", <<"No such file or directory: ">>
                                              \o args.arquivo_destino))
            /\ UNCHANGED <<sent, out>>
       ELSE /\ handles' = handles \o <<OpenHandle(args.arquivo_origem),
                                       OpenHandle(args.arquivo_destino)>>
            /\ sent' = Append(sent, CarregarArquivosRequest(args, Len(handles)))
            /\ out' = Append(out, <<"2. Fazendo upload dos arquivos para o projeto ">>
                                  \o Fmt(args.project_id) \o <<"...">>)
            /\ pc' = "carregar_wait"
            /\ UNCHANGED <<args, id_projeto, returned, exc, escaped>>
    /\ UNCHANGED <<entry, WORKSPACE_ID, TRANSLATOR_KEY, TRANSLATOR_ENDPOINT, fs,
                   translateCalls, answer, recv>>

\* Lines 62-64 as a function of the answer.
CarregarArquivosOutcome(ans, url) ==
    IF ans.kind = "error"
    THEN [exc |-> TransportError(url), val |-> PNone, lines |-> <<>>]
    ELSE IF RaiseForStatus(ans.resp, url) # NoExc
    THEN [exc |-> RaiseForStatus(ans.resp, url), val |-> PNone, lines |-> <<>>]
    ELSE [exc |-> NoExc, val |-> PNone,
          lines |-> << <<"   -> Upload dos arquivos concluido.">> >>]

\* Mutant: the handles are closed when the request is over (a with block).
CarregarArquivosHandlesClosed(hs) ==
    [i \in 1..Len(hs) |-> [hs[i] EXCEPT !.state = "closed", !.closedBy = "code"]]

\* What lines 62-64 do to the file handles: nothing, no handle is closed.
CarregarArquivosHandles(hs) == hs

\* Lines 62-64 once requests.post has returned or raised.
CarregarArquivosRecv ==
    /\ pc = "carregar_wait"
    /\ PostReturns
    /\ LET o == CarregarArquivosOutcome(answer, sent[Len(sent)].url)
       IN  /\ out' = out \o o.lines
           /\ IF o.exc # NoExc THEN Raise(o.exc) ELSE Return("carregar_arquivos", o.val)
    /\ handles' = CarregarArquivosHandles(handles)
    /\ recv' = Append(recv, answer)
    /\ answer' = NoAnswer
    /\ UNCHANGED <<entry, WORKSPACE_ID, TRANSLATOR_KEY, TRANSLATOR_ENDPOINT, fs, sent,
                   translateCalls>>

\* The runtime finalises file objects nothing refers to any more: once
\* carregar_arquivos has been left, the handles it opened (the list holding
\* them is dropped as a whole) may be closed by the garbage collector at any
\* moment, or never.
CollectHandles ==
    /\ pc \notin CarregarLabels
    /\ \E i \in 1..Len(handles) : handles[i].state = "open"
    /\ handles' = [i \in 1..Len(handles) |->
                      IF handles[i].state = "open"
                      THEN [handles[i] EXCEPT !.state = "closed", !.closedBy = "gc"]
                      ELSE handles[i]]
    /\ UNCHANGED <<entry, WORKSPACE_ID, TRANSLATOR_KEY, TRANSLATOR_ENDPOINT, fs, pc,
                   args, id_projeto, sent, translateCalls, answer, recv, returned,
                   exc, escaped, out>>

\* -------------------------------------------------------- treinar_modelo
\* Lines 69-71: the request treinar_modelo builds.
TreinarModeloRequest(a) ==
    [method |-> "POST",
     url |-> CUSTOM_TRANSLATOR_API_ENDPOINT \o <<"/api/texttranslator/v1.0/projects/">>
             \o Fmt(a.project_id) \o <<"/models">>,
     headers |-> [key |-> TRANSLATOR_KEY, contentType |-> <<"application/json">>],
     json |-> [name |-> a.nome_modelo],
     files |-> <<>>,
     params |-> <<>>]

\* Lines 73-74, up to the point where requests.post blocks.
TreinarModeloSend ==
    /\ pc = "treinar_modelo"
    /\ sent' = Append(sent, TreinarModeloRequest(args))
    /\ out' = Append(out, <<"3. Iniciando o treinamento do modelo '">>
                          \o args.nome_modelo \o <<"'...">>)
    /\ pc' = "treinar_wait"
    /\ UNCHANGED <<entry, WORKSPACE_ID, TRANSLATOR_KEY, TRANSLATOR_ENDPOINT, fs, args,
                   id_projeto, translateCalls, answer, recv, handles, returned, exc,
                   escaped>>

\* Lines 74-82 as a function of the answer.
TreinarModeloOutcome(ans, url) ==
    IF ans.kind = "error"
    THEN [exc |-> TransportError(url), val |-> PNone, lines |-> <<>>]
    ELSE IF RaiseForStatus(ans.resp, url) # NoExc
    THEN [exc |-> RaiseForStatus(ans.resp, url), val |-> PNone, lines |-> <<>>]
    ELSE LET model_info == ParseJson(ans.resp.text)
         IN  IF model_info.kind = "invalid"
             THEN [exc |-> Exc("JSONDecodeError", <<"Expecting value">>),
                   val |-> PNone, lines |-> <<>>]
             ELSE IF model_info.kind = "list"
             THEN [exc |-> Exc("TypeError", <<"list indices must be integers">>),
                   val |-> PNone, lines |-> <<>>]
             ELSE IF ~model_info.hasId
             THEN [exc |-> Exc("KeyError", <<"'id'">>), val |-> PNone, lines |-> <<>>]
             ELSE [exc |-> NoExc, val |-> model_info.id,
                   lines |-> << <<"   -> Treinamento iniciado. ID do modelo: ">>
                                \o Fmt(model_info.id),
                                <<"\nAVISO: O treinamento pode levar varias horas.">>,
                                <<"Monitore o status em: ",
                                  "https://portal.customtranslator.azure.ai/">> >>]

\* Lines 74-82 once requests.post has returned or raised.
TreinarModeloRecv ==
    /\ pc = "treinar_wait"
    /\ PostReturns
    /\ LET o == TreinarModeloOutcome(answer, sent[Len(sent)].url)
       IN  /\ out' = out \o o.lines
           /\ IF o.exc # NoExc THEN Raise(o.exc) ELSE Return("treinar_modelo", o.val)
    /\ recv' = Append(recv, answer)
    /\ answer' = NoAnswer
    /\ UNCHANGED <<entry, WORKSPACE_ID, TRANSLATOR_KEY, TRANSLATOR_ENDPOINT, fs, sent,
                   translateCalls, handles>>

\* ------------------------------------- traduzir_com_modelo_personalizado
\* Mutant: a separator between the workspace identifier and the label.
CategoryIdSeparated(categoria_projeto) ==
    Fmt(WORKSPACE_ID) \o <<"-">> \o categoria_projeto

\* Line 91: the category identifier.
CategoryId(categoria_projeto) == Fmt(WORKSPACE_ID) \o categoria_projeto

\* Lines 95-110: the client and the translate request.
TraduzirRequest(a) ==
    [endpoint |-> TRANSLATOR_ENDPOINT,
     credential |-> TRANSLATOR_KEY,
     content |-> textos_para_traduzir,
     to_language |-> a.lang_destino,
     category_id |-> CategoryId(a.categoria_projeto)]

\* Lines 91-110, up to the point where client.translate blocks.
TraduzirSend ==
    /\ pc = "traduzir"
    /\ translateCalls' = Append(translateCalls, TraduzirRequest(args))
    /\ out' = Append(out, <<"\n--- Usando o Modelo Personalizado (Categoria: ">>
                          \o CategoryId(args.categoria_projeto) \o <<") ---">>)
    /\ pc' = "traduzir_wait"
    /\ UNCHANGED <<entry, WORKSPACE_ID, TRANSLATOR_KEY, TRANSLATOR_ENDPOINT, fs, args,
                   id_projeto, sent, answer, recv, handles, returned, exc, escaped>>

\* The translation service's result for a request: one item per input text,
\* each with nvar translations tagged with the requested language.
Translated(req, nvar) ==
    [i \in 1..Len(req.content) |->
        [source_text |-> req.content[i],
         translations |->
            [j \in 1..nvar |->
                [to |-> req.to_language,
                 text |-> <<"translation ", DigitTok[j + 1], " of ">> \o req.content[i]]]]]

\* Lines 115-116 for one item.
PrintTranslations(item) ==
    [j \in 1..Len(item.translations) |->
        <<"  -> Traducao (">> \o item.translations[j].to \o <<"): '">>
            \o item.translations[j].text \o <<"'">>]

RECURSIVE PrintItems(_)
\* Lines 113-116: the lines printed for the items of a response.
PrintItems(items) ==
    IF Len(items) = 0 THEN <<>>
    ELSE << <<"Texto original: '">> \o items[1].source_text \o <<"'">> >>
         \o PrintTranslations(items[1]) \o PrintItems(Tail(items))

\* Lines 105-116 once client.translate has returned or raised; nothing in the
\* function catches what it raises.
TraduzirRecv ==
    /\ pc = "traduzir_wait"
    /\ PostReturns
    /\ IF answer.kind = "error"
       THEN /\ Raise(Exc(answer.cls, <<"translate failed">>))
            /\ UNCHANGED out
       ELSE /\ out' = out \o << <<"Resultados da traducao:">> >>
                          \o PrintItems(Translated(translateCalls[Len(translateCalls)],
                                                   answer.nvar))
            /\ Return("traduzir_com_modelo_personalizado", PNone)
    /\ recv' = Append(recv, answer)
    /\ answer' = NoAnswer
    /\ UNCHANGED <<entry, WORKSPACE_ID, TRANSLATOR_KEY, TRANSLATOR_ENDPOINT, fs, sent,
                   translateCalls, handles>>

\* ------------------------------------------------------- the entry block
\* Lines 134-140: the two training files are written, then criar_projeto is
\* called; opening either file for writing can fail.
MainWriteFiles ==
    /\ pc = "main"
    /\ \E outcome \in {"ok", "fail_en", "fail_pt"} :
          IF outcome = "fail_en"
          THEN /\ Raise(Exc("PermissionError", <<"Permission denied: ">> \o EnTrainingTxt))
               /\ UNCHANGED fs
          ELSE IF outcome = "fail_pt"
          THEN /\ fs' = [fs EXCEPT ![EnTrainingTxt] = EnTrainingData]
               /\ Raise(Exc("PermissionError", <<"Permission denied: ">> \o PtBrTrainingTxt))
          ELSE /\ fs' = [fs EXCEPT ![EnTrainingTxt] = EnTrainingData,
                                   ![PtBrTrainingTxt] = PtBrTrainingData]
               /\ CallCriarProjeto(NOME_DO_PROJETO, CATEGORIA_DO_PROJETO,
                                   IDIOMA_ORIGEM, IDIOMA_DESTINO)
               /\ UNCHANGED <<id_projeto, returned, exc, escaped>>
    /\ UNCHANGED <<entry, WORKSPACE_ID, TRANSLATOR_KEY, TRANSLATOR_ENDPOINT, sent,
                   translateCalls, answer, recv, handles, out>>

\* Mutant: the second clause written as `except OSError`.
ExceptClauseNarrow(cls) ==
    IF IsInstance(cls, "HTTPError") THEN "HTTPError"
    ELSE IF IsInstance(cls, "OSError") THEN "Exception"
    ELSE "none"

\* Which except clause of lines 144-148 takes an exception of class cls.
ExceptClause(cls) ==
    IF IsInstance(cls, "HTTPError") THEN "HTTPError"
    ELSE IF IsInstance(cls, "Exception") THEN "Exception"
    ELSE "none"

\* Lines 144-148: the except clauses of the entry block.  exc keeps the
\* exception that was handled.
TopLevelExcept ==
    /\ pc = "except"
    /\ pc' = "done"
    /\ IF ExceptClause(exc.cls) = "HTTPError"
       THEN /\ out' = out \o << <<"\nERRO na API de gerenciamento: ">> \o exc.msg,
                                <<"Detalhes do erro: ">> \o exc.resp.text >>
            /\ UNCHANGED escaped
       ELSE IF ExceptClause(exc.cls) = "Exception"
       THEN /\ out' = Append(out, <<"Ocorreu um erro inesperado: ">> \o exc.msg)
            /\ UNCHANGED escaped
       ELSE /\ escaped' = TRUE
            /\ UNCHANGED out
    /\ UNCHANGED <<entry, WORKSPACE_ID, TRANSLATOR_KEY, TRANSLATOR_ENDPOINT, fs, args,
                   id_projeto, sent, translateCalls, answer, recv, handles, returned,
                   exc>>

\* ------------------------------------------------------- specifications
\* The steps of the program itself.
Program ==
    \/ MainWriteFiles
    \/ CriarProjetoSend
    \/ CriarProjetoRecv
    \/ CarregarArquivosSend
    \/ CarregarArquivosRecv
    \/ TreinarModeloSend
    \/ TreinarModeloRecv
    \/ TraduzirSend
    \/ TraduzirRecv
    \/ TopLevelExcept

Next ==
    \/ Program
    \/ RemoteAnswers
    \/ CollectHandles

Spec == Init /\ [][Next]_vars

\* The program is single-threaded and runs whenever it is not blocked; the
\* remote side answers every request it is sent.
SpecLive == Spec /\ WF_vars(Program) /\ WF_vars(RemoteAnswers)

\* ---------------------------------------------------------------- claims
IsMain == entry = "main"
\* Which collection a management request addresses: the last piece of its url.
ReqKind(req) == req.url[Len(req.url)]
PipelineKinds == <<"/projects", "/documents", "/models">>
IsResponse(a) == a.kind = "response"
\* A response whose status is not a success (2xx) status.
NonSuccess(a) == IsResponse(a) /\ ~(200 <= a.resp.status /\ a.resp.status < 300)
\* A response whose status is a client or server error (4xx, 5xx).
ErrorStatus(a) == IsResponse(a) /\ 400 <= a.resp.status /\ a.resp.status < 600
Last(seq) == seq[Len(seq)]
\* Whether text `inner` occurs in text `outer`.
Contains(outer, inner) ==
    \E i \in 0..(Len(outer) - Len(inner)) :
        \A j \in 1..Len(inner) : outer[i + j] = inner[j]

\* C1, as claimed, for the error statuses it gives as example (400 with body
\* {"error":"bad language code"}): in the entry block, once project creation
\* has got such a status, an error whose message includes the response body
\* text has been raised, it leaves the pipeline, and only the creation request
\* was sent.
C1_AsClaimed ==
    (IsMain /\ Len(recv) >= 1 /\ ErrorStatus(recv[1]))
        => /\ exc # NoExc
           /\ Contains(exc.msg, recv[1].resp.text)
           /\ Len(sent) = 1
           /\ (pc = "done" => escaped)

\* C1, amended: in the entry block, once project creation has got a 4xx or 5xx
\* status, an HTTPError carrying that response has been raised, it does not
\* leave the entry block, the report printed for it ends with the response body
\* text, and only the creation request was sent; and whenever a call of the run
\* has failed, every request sent was sent before the failure: the failed
\* request is the last one sent and nothing is in flight.
C1_NoCallAfterFailure ==
    IsMain =>
        /\ (Len(recv) >= 1 /\ ErrorStatus(recv[1]))
              => /\ exc.cls = "HTTPError"
                 /\ exc.resp = recv[1].resp
                 /\ Len(sent) = 1
                 /\ ~escaped
                 /\ pc \in {"except", "done"}
                 /\ (pc = "done"
                        => Last(out) = <<"Detalhes do erro: ">> \o recv[1].resp.text)
        /\ (exc # NoExc)
              => /\ pc \in {"except", "done"}
                 /\ answer = NoAnswer
                 /\ Len(sent) = Len(recv)
                 /\ Len(sent) <= Len(returned) + 1

\* C1's case: creation answered 400 with the error document, reported, run over.
C1_Witness ==
    /\ IsMain
    /\ pc = "done"
    /\ Len(recv) = 1
    /\ recv[1].resp.status = 400
    /\ recv[1].resp.text = ErrorBody
    /\ Len(sent) = 1

\* C2, as claimed: whenever a management call has got a non-success status, it
\* has raised an error carrying the response body and returned nothing.
C2_AsClaimed ==
    (entry # "traduzir_com_modelo_personalizado") =>
        \A k \in 1..Len(recv) :
            NonSuccess(recv[k])
                => /\ exc # NoExc
                   /\ (exc.resp.text = recv[k].resp.text
                          \/ Contains(exc.msg, recv[k].resp.text))
                   /\ Len(returned) = k - 1

\* C2, amended: whenever a management call (any of the three, called on its own
\* or from the entry block) has got a 4xx or 5xx status, it has raised an
\* HTTPError carrying the response body text verbatim and has returned nothing.
C2_ErrorStatusRaises ==
    (entry # "traduzir_com_modelo_personalizado") =>
        \A k \in 1..Len(recv) :
            ErrorStatus(recv[k])
                => /\ k = Len(recv)
                   /\ exc.cls = "HTTPError"
                   /\ exc.resp.text = recv[k].resp.text
                   /\ exc.resp.status = recv[k].resp.status
                   /\ Len(returned) = k - 1
                   /\ pc \in {"except", "done"}

\* C2's case: the third call of the entry block answered 500 with a body.
C2_Witness ==
    /\ IsMain
    /\ Len(recv) = 3
    /\ recv[3].resp.status = 500
    /\ recv[3].resp.text = ErrorBody
    /\ exc.cls = "HTTPError"

\* C3: whenever the creation request got a success (2xx) response whose body is
\* {"id": v}, criar_projeto has returned v itself, and the creation request was
\* sent exactly once: the first request sent is the one built from the
\* arguments, and no other request goes to the project collection.
C3_ReturnsIdField ==
    (entry \in {"criar_projeto", "main"}) =>
        \A v \in IdValues :
            (/\ Len(recv) >= 1
             /\ IsResponse(recv[1])
             /\ ~NonSuccess(recv[1])
             /\ recv[1].resp.text = DumpsId(v))
                => /\ Len(returned) >= 1
                   /\ returned[1] = [fn |-> "criar_projeto", val |-> v]
                   /\ Cardinality({i \in 1..Len(sent) : ReqKind(sent[i]) = "/projects"}) = 1
                   /\ sent[1].method = "POST"
                   /\ (entry = "criar_projeto"
                          => sent = <<CriarProjetoRequest(args)>>)

\* C3's case: criar_projeto called on its own got 200 {"id": 7} and returned 7.
C3_Witness ==
    /\ entry = "criar_projeto"
    /\ pc = "done"
    /\ recv[1].resp.status = 200
    /\ recv[1].resp.text = DumpsId(PInt(7))
    /\ returned = <<[fn |-> "criar_projeto", val |-> PInt(7)]>>
    /\ args.nome_projeto = <<"P">>

\* The two paths carregar_arquivos was called with: the entry block's constants
\* (line 141), or the arguments of a direct call.
UploadOrigem == IF IsMain THEN EnTrainingTxt ELSE args.arquivo_origem
UploadDestino == IF IsMain THEN PtBrTrainingTxt ELSE args.arquivo_destino
UploadLang == IF IsMain THEN IDIOMA_ORIGEM ELSE args.lang_origem_code

\* C4: every upload request sent carries exactly two file parts, both under the
\* field name "files", the first made from the file at arquivo_origem (its base
\* name, its handle, its content) and the second from the file at
\* arquivo_destino, and declares documentType "training" and the source
\* language code.
C4_TwoPartsInOrder ==
    (entry \in {"carregar_arquivos", "main"}) =>
        \A i \in 1..Len(sent) :
            ReqKind(sent[i]) = "/documents"
                => /\ Len(sent[i].files) = 2
                   /\ \A k \in 1..2 : sent[i].files[k].field = "files"
                   /\ sent[i].files[1].filename = Basename(UploadOrigem)
                   /\ sent[i].files[1].data = fs[UploadOrigem]
                   /\ handles[sent[i].files[1].fp].path = UploadOrigem
                   /\ sent[i].files[2].filename = Basename(UploadDestino)
                   /\ sent[i].files[2].data = fs[UploadDestino]
                   /\ handles[sent[i].files[2].fp].path = UploadDestino
                   /\ sent[i].files[1].fp # sent[i].files[2].fp
                   /\ sent[i].params.documentType = <<"training">>
                   /\ sent[i].params.languageCode = UploadLang
                   /\ sent[i].method = "POST"

\* C4's case: an upload of two files with the same base name and different
\* content was sent, with the target language as language code.
C4_Witness ==
    /\ entry = "carregar_arquivos"
    /\ Len(sent) = 1
    /\ args.arquivo_origem = <<"data", "en-training.txt">>
    /\ args.arquivo_destino = EnTrainingTxt
    /\ args.lang_origem_code = IDIOMA_DESTINO
    /\ sent[1].files[1].data = FileData(<<"data", "en-training.txt">>)
    /\ sent[1].files[2].data = FileData(EnTrainingTxt)

\* C5: once traduzir_com_modelo_personalizado has called the client, exactly one
\* translate request has been sent (and no management request); its category_id
\* is the workspace identifier immediately followed by the category label, and
\* its to_language is the target language the caller passed.
C5_CategoryIdIsConcatenation ==
    (entry = "traduzir_com_modelo_personalizado" /\ pc # "traduzir") =>
        /\ Len(translateCalls) = 1
        /\ Len(sent) = 0
        /\ translateCalls[1].to_language = args.lang_destino
        /\ translateCalls[1].content = textos_para_traduzir
        /\ (WORKSPACE_ID.t = "str"
               => /\ translateCalls[1].category_id
                        = WORKSPACE_ID.s \o args.categoria_projeto
                  /\ Len(translateCalls[1].category_id)
                        = Len(WORKSPACE_ID.s) + Len(args.categoria_projeto))

\* C5's case: workspace "ws" "2" and label "Agil" "idade", target language pt,
\* translated and printed.
C5_Witness ==
    /\ entry = "traduzir_com_modelo_personalizado"
    /\ pc = "done"
    /\ ~escaped
    /\ translateCalls[1].category_id = <<"ws", "2", "Agil", "idade">>
    /\ translateCalls[1].to_language = IDIOMA_DESTINO

\* The url of a request for project text p in collection kind.
ProjectUrl(p, kind) ==
    CUSTOM_TRANSLATOR_API_ENDPOINT \o <<"/api/texttranslator/v1.0/projects/">>
        \o p \o <<kind>>

\* C6: in the entry block, every upload or train request sent is addressed to
\* the identifier v that the creation response of the run carried in its `id`
\* field: a string identifier appears in the url as it is, a numeric one as
\* its digits, and no other identifier is ever used.
C6_IdPassedThrough ==
    IsMain =>
        \A i \in 1..Len(sent) :
            ReqKind(sent[i]) \in {"/documents", "/models"}
                => /\ IsResponse(recv[1])
                   /\ \E v \in IdValues :
                         /\ recv[1].resp.text = DumpsId(v)
                         /\ id_projeto = v
                         /\ sent[i].url = ProjectUrl(Fmt(v), ReqKind(sent[i]))
                         /\ (v.t = "str"
                                => sent[i].url = ProjectUrl(v.s, ReqKind(sent[i])))
                         /\ (v.t = "int"
                                => sent[i].url = ProjectUrl(Digits(v.n), ReqKind(sent[i])))

\* C6's case: the creation response carried the number 7 and both later
\* requests were sent.
C6_Witness ==
    /\ IsMain
    /\ Len(sent) = 3
    /\ recv[1].resp.text = DumpsId(PInt(7))
    /\ sent[2].url = ProjectUrl(<<"7">>, "/documents")
    /\ sent[3].url = ProjectUrl(<<"7">>, "/models")

\* The kinds of the requests sent, in order.
SentKinds == [i \in 1..Len(sent) |-> ReqKind(sent[i])]

EndedOnErrorStatus == Len(recv) >= 1 /\ ErrorStatus(Last(recv))

\* C8: in the entry block no exception leaves the try statement; a run that
\* ended on a failure printed exactly one of two reports as its last lines: for
\* an HTTP error status the exception text, then the raw response body; for any
\* other failure (file I/O, transport, a response without an `id` field) one
\* line with the exception's message and no body line.  Nothing is retried and
\* no cleanup request is sent: the requests are a prefix of (create, upload,
\* train), all POSTs, each answered at most once, and the failed one is the last.
C8_TwoReportedOutcomes ==
    IsMain =>
        /\ ~escaped
        /\ (pc = "except" => ExceptClause(exc.cls) \in {"HTTPError", "Exception"})
        /\ (exc # NoExc) => pc \in {"except", "done"}
        /\ (pc = "done" /\ exc # NoExc)
              => /\ IF EndedOnErrorStatus
                    THEN /\ Len(out) >= 2
                         /\ out[Len(out) - 1]
                               = <<"\nERRO na API de gerenciamento: ">> \o exc.msg
                         /\ Last(out) = <<"Detalhes do erro: ">> \o Last(recv).resp.text
                    ELSE /\ Len(out) >= 1
                         /\ Last(out) = <<"Ocorreu um erro inesperado: ">> \o exc.msg
                         /\ \A i \in 1..Len(out) :
                               out[i][1] \notin {"Detalhes do erro: ",
                                                 "\nERRO na API de gerenciamento: "}
                 /\ Len(sent) = Len(recv)
                 /\ Len(returned) = IF Len(sent) = 0 THEN 0 ELSE Len(sent) - 1
                 /\ SentKinds = SubSeq(PipelineKinds, 1, Len(sent))
                 /\ \A i \in 1..Len(sent) : sent[i].method = "POST"

\* C8's case: the project was created, the upload got an error status, the
\* report was printed and the run is over with the project left behind.
C8_Witness ==
    /\ IsMain
    /\ pc = "done"
    /\ Len(sent) = 2
    /\ exc.cls = "HTTPError"
    /\ Last(recv).resp.status = 500
    /\ Last(out) = <<"Detalhes do erro: ">> \o ErrorBody

\* C9, as claimed: the handles carregar_arquivos opened are still open in
\* every state after they were opened: after a successful upload, after a
\* failed one, and after a failed open of the target file.
C9_AsClaimed ==
    \A i \in 1..Len(handles) : handles[i].state = "open"

\* C9, amended: the code never closes a handle (only the runtime's collector
\* does, and only after carregar_arquivos has been left); while the request is
\* in flight the two handles just opened, source then target, are open; when
\* opening the target file has failed, the source handle has been opened, was
\* not closed by the code, and no upload request was sent.
C9_NeverClosedByCode ==
    (entry \in {"carregar_arquivos", "main"}) =>
        /\ \A i \in 1..Len(handles) :
              /\ handles[i].closedBy \in {"", "gc"}
              /\ (handles[i].state = "closed") = (handles[i].closedBy = "gc")
              /\ (pc \in CarregarLabels => handles[i].state = "open")
        /\ (pc = "carregar_wait")
              => /\ Len(handles) = 2
                 /\ handles[1].path = UploadOrigem
                 /\ handles[2].path = UploadDestino
        /\ \A i \in 1..Len(sent) :
              ReqKind(sent[i]) = "/documents" => Len(handles) = 2
        /\ (/\ entry = "carregar_arquivos"
            /\ pc = "done"
            /\ fs[args.arquivo_origem] # NoFile
            /\ fs[args.arquivo_destino] = NoFile)
              => /\ exc.cls = "FileNotFoundError"
                 /\ Len(handles) = 1
                 /\ handles[1].path = args.arquivo_origem
                 /\ Len(sent) = 0

\* C9's case: the upload succeeded, carregar_arquivos returned, and both
\* handles are still open.
C9_Witness ==
    /\ entry = "carregar_arquivos"
    /\ pc = "done"
    /\ exc = NoExc
    /\ Len(handles) = 2
    /\ handles[1].state = "open"
    /\ handles[2].state = "open"

\* C10: (1) with the program running whenever it is not blocked and the remote
\* side answering every request, every run ends; (2) no run sends more than
\* three management requests; (3) while a request is in flight and the remote
\* side has not answered, the program does not move: it stays at the call,
\* prints nothing and raises nothing.
C10_BlocksUntilAnswered ==
    /\ <>(pc = "done")
    /\ [](Len(sent) <= 3 /\ Len(translateCalls) <= 1)
    /\ [][(pc \in WaitLabels /\ answer = NoAnswer)
             => (pc' = pc /\ out' = out /\ exc' = exc /\ sent' = sent)]_vars

\* C10's case: the third request of the entry block is in flight, unanswered.
C10_Witness ==
    /\ IsMain
    /\ pc = "treinar_wait"
    /\ answer = NoAnswer
    /\ Len(sent) = 3

====
